---- MODULE Spec2Model ----
(***************************************************************************)
(* A model of the PR-description action: the orchestrator run() of         *)
(* src/main.ts with the validators of src/validation.ts and the adapters   *)
(* of src/github.ts, the pure function filterDiff of src/github.ts, and    *)
(* the validators, getCommitMessages and the generator called alone.       *)
(*                                                                         *)
(* Text that the code inspects character by character (diffs, paths, glob  *)
(* patterns, commit ids) is a sequence of one-character strings.  Text the *)
(* code only passes along (error messages, descriptions) is a string.      *)
(***************************************************************************)
EXTENDS Integers, Sequences, FiniteSets, TLC

VARIABLES
    \* what the run is given: the context, the inputs, the pull request on the host
    eventName,     \* context.eventName
    payload,       \* context.payload: its action and its pull_request
    inputs,        \* the inputs core.getInput reads
    env,           \* process.env: ANTHROPIC_API_KEY and GITHUB_TOKEN
    prBody,        \* the body of the pull request on the host
    \* run() of src/main.ts
    pc,            \* where run() stands
    inputsRead,    \* has core.getInput been called
    config,        \* const config
    prInfo,        \* const prInfo
    call,          \* the state of each of the four external operations
    requests,      \* the requests issued, in order
    diff,          \* what generateDiff resolved to
    commitMessages, \* what getCommitMessages resolved to
    newDescription, \* const newDescription
    failedWith,    \* the messages of the core.setFailed calls
    output,        \* the core.setOutput calls
    exitCode,      \* process.exit(0) or the exit code core.setFailed sets
    log,           \* the core.info / core.warning / core.error records
    steps,         \* history: the steps taken so far, each with its outcome
    answers,       \* history: what each external operation answered
    \* the harness of filterDiff
    fPhase,        \* "off", "input", "filtered"
    fDiff,         \* the diff handed to filterDiff
    fPatterns,     \* the ignoredPatterns handed to filterDiff
    fOut,          \* what filterDiff returned and logged
    fAgain,        \* what filterDiff returned and logged when called on its result
    \* the harness of the validators and adapters, called alone
    uPhase,        \* "off", "input", "returned"
    uFn,           \* the function called
    uArg,          \* what it is called with
    uOut           \* what it returned or threw, and what it logged

rvars == <<eventName, payload, inputs, env, prBody, pc, inputsRead, config, prInfo, call,
           requests, diff, commitMessages, newDescription, failedWith, output,
           exitCode, log, steps, answers>>

fvars == <<fPhase, fDiff, fPatterns, fOut, fAgain>>

uvars == <<uPhase, uFn, uArg, uOut>>

\* the variables of the two harnesses
hvars == <<fvars, uvars>>

vars == <<rvars, fvars, uvars>>

\* a value that may be absent (undefined or null in the code)
None == <<>>
Some(v) == <<v>>

----------------------------------------------------------------------------
(* Bounds of the model.                                                    *)

\* a diff is made of at most MaxFrags fragments of DiffFragments
MaxFrags == 4

\* listCommits answers at most MaxCommits commits
MaxCommits == 2

\* the `ignore-patterns` input has at most MaxInputLen characters
MaxInputLen == 5

\* the model answers at most MaxBlocks content blocks
MaxBlocks == 2

----------------------------------------------------------------------------
(* JavaScript string operations, on sequences of characters.               *)

Flatten(ss) ==
    LET F[i \in 0..Len(ss)] == IF i = 0 THEN <<>> ELSE F[i - 1] \o ss[i]
    IN  F[Len(ss)]

\* s.substring(i) for a 0-based i
SubstringFrom(s, i) == SubSeq(s, i + 1, Len(s))

\* does p occur in s at the 1-based position i
OccursAt(s, i, p) ==
    /\ i >= 1
    /\ i + Len(p) - 1 <= Len(s)
    /\ \A k \in 1..Len(p) : s[i + k - 1] = p[k]

\* s.startsWith(p)
StartsWith(s, p) == OccursAt(s, 1, p)

\* s.indexOf(p): the 0-based index of the first occurrence, -1 if none
IndexOf(s, p) ==
    LET hits == {i \in 1..(Len(s) - Len(p) + 1) : OccursAt(s, i, p)}
    IN  IF hits = {} THEN -1
        ELSE (CHOOSE i \in hits : \A j \in hits : i <= j) - 1

IsWhitespace(c) == c \in {" ", "\n", "\t", "\r"}

\* s.trim()
Trim(s) ==
    LET solid == {i \in 1..Len(s) : ~IsWhitespace(s[i])}
    IN  IF solid = {} THEN <<>>
        ELSE SubSeq(s, CHOOSE i \in solid : \A j \in solid : i <= j,
                       CHOOSE i \in solid : \A j \in solid : i >= j)

\* the elements of a finite set of integers in increasing order
Sorted(S) ==
    [k \in 1..Cardinality(S) |->
        CHOOSE c \in S : Cardinality({d \in S : d < c}) = k - 1]

\* s.split(sep) for a one-character separator
SplitChar(s, sep) ==
    LET cuts == Sorted({i \in 1..Len(s) : s[i] = sep})
        edge == <<0>> \o cuts \o <<Len(s) + 1>>
    IN  [k \in 1..(Len(cuts) + 1) |-> SubSeq(s, edge[k] + 1, edge[k + 1] - 1)]

\* pieces.join(sep) for a separator that is a character sequence
Join(pieces, sep) ==
    LET J[i \in 0..Len(pieces)] ==
            IF i = 0 THEN <<>>
            ELSE IF i = 1 THEN pieces[1]
                 ELSE J[i - 1] \o sep \o pieces[i]
    IN  J[Len(pieces)]

----------------------------------------------------------------------------
(* minimatch(path, pattern), for patterns made of literal characters, `*`  *)
(* and `**`, and paths without dot-files: a `**` segment matches any run   *)
(* of path segments, `*` matches any run of characters inside one segment  *)
(* (at least one when it is the whole segment), anything else itself.      *)

RECURSIVE SegMatch(_, _, _, _)
\* does seg[i..] match the pattern segment p[j..]
SegMatch(seg, i, p, j) ==
    IF j > Len(p) THEN i > Len(seg)
    ELSE IF p[j] = "*"
         THEN \E k \in i..(Len(seg) + 1) : SegMatch(seg, k, p, j + 1)
         ELSE /\ i <= Len(seg)
              /\ seg[i] = p[j]
              /\ SegMatch(seg, i + 1, p, j + 1)

GlobStar == <<"*", "*">>

SegmentMatches(seg, p) ==
    /\ SegMatch(seg, 1, p, 1)
    /\ (p = <<"*">> => seg # <<>>)

RECURSIVE MatchOne(_, _, _, _)
\* do the path segments file[fi..] match the pattern segments pat[pi..]
MatchOne(file, fi, pat, pi) ==
    IF pi > Len(pat) THEN fi > Len(file)
    ELSE IF pat[pi] = GlobStar
         THEN IF pi = Len(pat)
              THEN fi <= Len(file)
              ELSE \E k \in fi..(Len(file) + 1) : MatchOne(file, k, pat, pi + 1)
         ELSE /\ fi <= Len(file)
              /\ SegmentMatches(file[fi], pat[pi])
              /\ MatchOne(file, fi + 1, pat, pi + 1)

minimatch(filePath, pattern) ==
    MatchOne(SplitChar(filePath, "/"), 1, SplitChar(pattern, "/"), 1)

----------------------------------------------------------------------------
(* filterDiff of src/github.ts.                                            *)

\* the text of the split regexp /(?=diff --git )/g
DiffGit == <<"d", "i", "f", "f", " ", "-", "-", "g", "i", "t", " ">>

\* the prefix 'diff --git a/' of a file header
DiffGitA == DiffGit \o <<"a", "/">>

\* the marker ' b/' that ends the path of a file header
BMarker == <<" ", "b", "/">>

\* one core.info / core.warning / core.error record
Rec(level, text, arg, n) == [level |-> level, text |-> text, arg |-> arg, n |-> n]

\* diff.split(/(?=diff --git )/g): a cut before every occurrence of the text
\* except one at the start of the piece being cut
RECURSIVE SplitFrom(_, _, _)
SplitFrom(s, start, i) ==
    IF i > Len(s) THEN << SubSeq(s, start, Len(s)) >>
    ELSE IF i > start /\ OccursAt(s, i, DiffGit)
         THEN << SubSeq(s, start, i - 1) >> \o SplitFrom(s, i, i + 1)
         ELSE SplitFrom(s, start, i + 1)

SplitSections(diffText) == SplitFrom(diffText, 1, 1)

\* a section is kept by .filter((section) => section.trim())
NonBlank(section) == Trim(section) # <<>>

\* const fileSections = diff.split(...).filter(...)
FileSections(diffText) == SelectSeq(SplitSections(diffText), NonBlank)

\* section.split('\n')[0]
FirstLine(section) == SplitChar(section, "\n")[1]

\* a fault: every pattern has to match (.every for .some)
ShouldIgnoreEvery(filePath, ignoredPatterns) ==
    \A k \in 1..Len(ignoredPatterns) : minimatch(filePath, ignoredPatterns[k])

\* ignoredPatterns.some((pattern) => minimatch(filePath, pattern))
ShouldIgnore(filePath, ignoredPatterns) ==
    \E k \in 1..Len(ignoredPatterns) : minimatch(filePath, ignoredPatterns[k])

\* the state of the loop of filterDiff before its first iteration
LoopStart == [filteredSections |-> <<>>, removedFilesCount |-> 0, log |-> <<>>]

\* a fault: a section without a file header is dropped
LoopBodyDropsText(acc, section, ignoredPatterns) ==
    LET firstLine == FirstLine(section) IN
    IF StartsWith(firstLine, DiffGitA)
    THEN LET afterA == SubstringFrom(firstLine, Len(DiffGitA))
             bIndex == IndexOf(afterA, BMarker)
         IN  IF bIndex > 0
             THEN LET filePath == SubSeq(afterA, 1, bIndex) IN
                  IF ShouldIgnore(filePath, ignoredPatterns)
                  THEN [acc EXCEPT
                          !.removedFilesCount = @ + 1,
                          !.log = Append(@, Rec("info", "Ignoring file: ", filePath, 0))]
                  ELSE [acc EXCEPT !.filteredSections = Append(@, section)]
             ELSE [acc EXCEPT
                     !.log = Append(@, Rec("warning", "Could not parse diff header: ",
                                           firstLine, 0))]
    ELSE acc

\* a fault: a section whose header cannot be parsed is warned about and kept
LoopBodyKeepsMalformed(acc, section, ignoredPatterns) ==
    LET firstLine == FirstLine(section) IN
    IF StartsWith(firstLine, DiffGitA)
    THEN LET afterA == SubstringFrom(firstLine, Len(DiffGitA))
             bIndex == IndexOf(afterA, BMarker)
         IN  IF bIndex > 0
             THEN LET filePath == SubSeq(afterA, 1, bIndex) IN
                  IF ShouldIgnore(filePath, ignoredPatterns)
                  THEN [acc EXCEPT
                          !.removedFilesCount = @ + 1,
                          !.log = Append(@, Rec("info", "Ignoring file: ", filePath, 0))]
                  ELSE [acc EXCEPT !.filteredSections = Append(@, section)]
             ELSE [acc EXCEPT
                     !.filteredSections = Append(@, section),
                     !.log = Append(@, Rec("warning", "Could not parse diff header: ",
                                           firstLine, 0))]
    ELSE [acc EXCEPT !.filteredSections = Append(@, section)]

\* a fault: an empty path is accepted (bIndex >= 0 for bIndex > 0)
LoopBodyAcceptsEmptyPath(acc, section, ignoredPatterns) ==
    LET firstLine == FirstLine(section) IN
    IF StartsWith(firstLine, DiffGitA)
    THEN LET afterA == SubstringFrom(firstLine, Len(DiffGitA))
             bIndex == IndexOf(afterA, BMarker)
         IN  IF bIndex >= 0
             THEN LET filePath == SubSeq(afterA, 1, bIndex) IN
                  IF ShouldIgnore(filePath, ignoredPatterns)
                  THEN [acc EXCEPT
                          !.removedFilesCount = @ + 1,
                          !.log = Append(@, Rec("info", "Ignoring file: ", filePath, 0))]
                  ELSE [acc EXCEPT !.filteredSections = Append(@, section)]
             ELSE [acc EXCEPT
                     !.log = Append(@, Rec("warning", "Could not parse diff header: ",
                                           firstLine, 0))]
    ELSE [acc EXCEPT !.filteredSections = Append(@, section)]

\* a fault: the `continue` is missing, a removed section is pushed all the same
LoopBodyNoContinue(acc, section, ignoredPatterns) ==
    LET firstLine == FirstLine(section) IN
    IF StartsWith(firstLine, DiffGitA)
    THEN LET afterA == SubstringFrom(firstLine, Len(DiffGitA))
             bIndex == IndexOf(afterA, BMarker)
         IN  IF bIndex > 0
             THEN LET filePath == SubSeq(afterA, 1, bIndex) IN
                  IF ShouldIgnore(filePath, ignoredPatterns)
                  THEN [acc EXCEPT
                          !.removedFilesCount = @ + 1,
                          !.log = Append(@, Rec("info", "Ignoring file: ", filePath, 0)),
                          !.filteredSections = Append(@, section)]
                  ELSE [acc EXCEPT !.filteredSections = Append(@, section)]
             ELSE [acc EXCEPT
                     !.log = Append(@, Rec("warning", "Could not parse diff header: ",
                                           firstLine, 0))]
    ELSE [acc EXCEPT !.filteredSections = Append(@, section)]

\* one iteration of the for loop of filterDiff
LoopBody(acc, section, ignoredPatterns) ==
    LET firstLine == FirstLine(section) IN
    IF StartsWith(firstLine, DiffGitA)
    THEN LET afterA == SubstringFrom(firstLine, Len(DiffGitA))
             bIndex == IndexOf(afterA, BMarker)
         IN  IF bIndex > 0
             THEN LET filePath == SubSeq(afterA, 1, bIndex) IN
                  IF ShouldIgnore(filePath, ignoredPatterns)
                  THEN [acc EXCEPT
                          !.removedFilesCount = @ + 1,
                          !.log = Append(@, Rec("info", "Ignoring file: ", filePath, 0))]
                  ELSE [acc EXCEPT !.filteredSections = Append(@, section)]
             ELSE [acc EXCEPT
                     !.log = Append(@, Rec("warning", "Could not parse diff header: ",
                                           firstLine, 0))]
    ELSE [acc EXCEPT !.filteredSections = Append(@, section)]

\* a fault: the sections are gone through from the last to the first
LoopBackwards(fileSections, ignoredPatterns) ==
    LET L[i \in 0..Len(fileSections)] ==
            IF i = 0 THEN LoopStart
            ELSE LoopBody(L[i - 1], fileSections[Len(fileSections) + 1 - i], ignoredPatterns)
    IN  L[Len(fileSections)]

\* the for loop of filterDiff over fileSections
Loop(fileSections, ignoredPatterns) ==
    LET L[i \in 0..Len(fileSections)] ==
            IF i = 0 THEN LoopStart
            ELSE LoopBody(L[i - 1], fileSections[i], ignoredPatterns)
    IN  L[Len(fileSections)]

\* a fault: the sections are joined with a newline (.join('\n') for .join(''))
FinishJoinNewline(acc) ==
    [out |-> Join(acc.filteredSections, <<"\n">>),
     log |-> IF acc.removedFilesCount > 0
             THEN Append(acc.log, Rec("info", "Filtered out files from ignored patterns",
                                      <<>>, acc.removedFilesCount))
             ELSE acc.log,
     removed |-> acc.removedFilesCount]

\* a fault: the summary record is emitted also when nothing was removed
FinishAlwaysSummary(acc) ==
    [out |-> Flatten(acc.filteredSections),
     log |-> Append(acc.log, Rec("info", "Filtered out files from ignored patterns",
                                 <<>>, acc.removedFilesCount)),
     removed |-> acc.removedFilesCount]

\* the summary record and the return value of filterDiff
Finish(acc) ==
    [out |-> Flatten(acc.filteredSections),
     log |-> IF acc.removedFilesCount > 0
             THEN Append(acc.log, Rec("info", "Filtered out files from ignored patterns",
                                      <<>>, acc.removedFilesCount))
             ELSE acc.log,
     removed |-> acc.removedFilesCount]

\* a fault: the early return for an empty pattern list is missing
filterDiffAlwaysSplits(diffText, ignoredPatterns) ==
    Finish(Loop(FileSections(diffText), ignoredPatterns))

\* filterDiff(diff, ignoredPatterns): the string returned and the records logged
filterDiff(diffText, ignoredPatterns) ==
    IF Len(ignoredPatterns) = 0
    THEN [out |-> diffText, log |-> <<>>, removed |-> 0]
    ELSE Finish(Loop(FileSections(diffText), ignoredPatterns))

----------------------------------------------------------------------------
(* The validators of src/validation.ts, as run() imports them.             *)

\* the outcome of a function that returns a value or throws an Error
Ok(v, lg) == [ok |-> TRUE, value |-> Some(v), error |-> "", log |-> lg]
Err(message, lg) == [ok |-> FALSE, value |-> None, error |-> message, log |-> lg]

\* !x is false: x is present and not the empty string
Truthy(x) == x # None /\ x[1] # ""

NotPullRequestMsg == "This action can only be used in pull request events."

\* a fault: the event `pull_request_target` is accepted as well
validatePullRequestEventOrTarget(name) ==
    IF name \notin {Some("pull_request"), Some("pull_request_target")}
    THEN Err(NotPullRequestMsg, <<>>)
    ELSE Ok(TRUE, <<>>)

validatePullRequestEvent(name) ==
    IF name # Some("pull_request")
    THEN Err(NotPullRequestMsg, <<>>)
    ELSE Ok(TRUE, <<>>)

\* a fault: `closed` is let through as well
AllowedActionsWithClosed == {"opened", "synchronize", "reopened", "closed"}

AllowedActions == {"opened", "synchronize", "reopened"}

\* validatePullRequestAction: proceed |-> FALSE stands for process.exit(0)
validatePullRequestAction(action) ==
    IF ~Truthy(action) \/ action[1] \notin AllowedActions
    THEN [proceed |-> FALSE,
          log |-> << Rec("info",
                         "Skipping action for PR action: "
                             \o (IF Truthy(action) THEN action[1] ELSE "unknown"),
                         <<>>, 0) >>]
    ELSE [proceed |-> TRUE, log |-> <<>>]

NoPullRequestMsg == "No pull request found in context"

MissingFieldsMsg ==
    "Required PR fields are missing (title, author, base SHA, head SHA, or URL)"

\* a fault: the URL is not among the fields checked
extractPRInfoUrlUnchecked(pull_request) ==
    IF pull_request = None
    THEN Err(NoPullRequestMsg, <<>>)
    ELSE LET pr == pull_request[1] IN
         IF \/ ~Truthy(pr.title)
            \/ ~Truthy(pr.login)
            \/ ~Truthy(pr.baseSha)
            \/ ~Truthy(pr.headSha)
         THEN Err(MissingFieldsMsg, <<>>)
         ELSE Ok([number |-> pr.number,
                  title |-> pr.title[1],
                  author |-> pr.login[1],
                  baseSha |-> pr.baseSha[1],
                  headSha |-> pr.headSha[1],
                  url |-> IF pr.html_url = None THEN "" ELSE pr.html_url[1]], <<>>)

extractPRInfo(pull_request) ==
    IF pull_request = None
    THEN Err(NoPullRequestMsg, <<>>)
    ELSE LET pr == pull_request[1] IN
         IF \/ ~Truthy(pr.title)
            \/ ~Truthy(pr.login)
            \/ ~Truthy(pr.baseSha)
            \/ ~Truthy(pr.headSha)
            \/ ~Truthy(pr.html_url)
         THEN Err(MissingFieldsMsg, <<>>)
         ELSE Ok([number |-> pr.number,
                  title |-> pr.title[1],
                  author |-> pr.login[1],
                  baseSha |-> pr.baseSha[1],
                  headSha |-> pr.headSha[1],
                  url |-> pr.html_url[1]], <<>>)

NoAnthropicKeyMsg ==
    "Anthropic API key not found. Please set the anthropic-api-key input or ANTHROPIC_API_KEY environment variable."

NoGithubTokenMsg ==
    "GitHub token not found. Please set the github-token input or GITHUB_TOKEN environment variable."

NonEmpty(pattern) == Len(pattern) > 0

\* a fault: the entries are not trimmed
ParsePatternsUntrimmed(ignorePatternsInput) ==
    SelectSeq(SplitChar(ignorePatternsInput, ","), NonEmpty)

\* ignorePatternsInput.split(',').map(trim).filter(length > 0)
ParsePatterns(ignorePatternsInput) ==
    LET pieces == SplitChar(ignorePatternsInput, ",")
        trimmed == [k \in 1..Len(pieces) |-> Trim(pieces[k])]
    IN  SelectSeq(trimmed, NonEmpty)

\* getConfig, over the three inputs core.getInput returns
getConfig(in) ==
    IF in.anthropicApiKey = ""
    THEN Err(NoAnthropicKeyMsg, <<>>)
    ELSE IF in.githubToken = ""
    THEN Err(NoGithubTokenMsg, <<>>)
    ELSE LET ignoredPatterns == ParsePatterns(in.ignorePatterns) IN
         Ok([anthropicApiKey |-> in.anthropicApiKey,
             githubToken |-> in.githubToken,
             ignoredPatterns |-> ignoredPatterns],
            IF Len(ignoredPatterns) > 0
            THEN << Rec("info", "Ignoring patterns: ", Join(ignoredPatterns, <<",", " ">>), 0) >>
            ELSE <<>>)

----------------------------------------------------------------------------
(* The adapters of src/github.ts.                                          *)

\* a fault: only the message of the error is interpolated
ErrorTextMessageOnly(e) == e.message

\* `${error}` for an Error object: Error.prototype.toString gives the name, a
\* colon and a space, and the message, or the one of the two that is not empty
ErrorText(e) ==
    IF e.name = "" THEN e.message
    ELSE IF e.message = "" THEN e.name
    ELSE e.name \o ": " \o e.message

\* rawDiff.split('\n').length
LineCount(text) == Len(SplitChar(text, "\n"))

\* generateDiff once the compare request has answered
generateDiffReturns(response, ignoredPatterns) ==
    IF response.ok
    THEN LET rawDiff == response.data
             filtered == filterDiff(rawDiff, ignoredPatterns)
         IN  Ok(filtered.out,
                filtered.log \o
                << Rec("info", "Raw diff lines: ", <<>>, LineCount(rawDiff)),
                   Rec("info", "Filtered diff lines: ", <<>>, LineCount(filtered.out)) >>)
    ELSE Err("Failed to generate diff: " \o ErrorText(response.error), <<>>)

\* a fault: the whole message is taken, not its first line
CommitLineWholeMessage(commit) ==
    SubSeq(commit.sha, 1, IF Len(commit.sha) < 7 THEN Len(commit.sha) ELSE 7)
        \o <<" ">> \o commit.message

\* commit.sha.substring(0, 7) + ' ' + commit.commit.message.split('\n')[0]
CommitLine(commit) ==
    SubSeq(commit.sha, 1, IF Len(commit.sha) < 7 THEN Len(commit.sha) ELSE 7)
        \o <<" ">> \o SplitChar(commit.message, "\n")[1]

\* getCommitMessages once the listCommits request has answered
getCommitMessagesReturns(response) ==
    IF response.ok
    THEN LET lines == [k \in 1..Len(response.data) |-> CommitLine(response.data[k])]
             joined == Join(lines, <<"\n">>)
         IN  Ok(joined, << Rec("info", "Commit Messages: ", joined, 0) >>)
    ELSE Err("Failed to get commit messages: " \o ErrorText(response.error), <<>>)

\* updatePRDescription once the update request has answered
updatePRDescriptionReturns(response) ==
    IF response.ok
    THEN Ok(TRUE, << Rec("info", "PR description updated successfully!", <<>>, 0) >>)
    ELSE Err("Failed to update PR description: " \o ErrorText(response.error), <<>>)

\* the body updatePRDescription puts in its request
UpdateBody(description) == description

----------------------------------------------------------------------------
(* generatePRDescription of src/claude.ts, once the model has answered.    *)

EmptyContentMsg == "Failed to generate PR description: empty content"
NonTextContentMsg == "Failed to generate PR description: non-text content"

\* a fault: the last content block is taken, not the first
generatePRDescriptionReturnsLast(response) ==
    IF ~response.ok
    THEN Err("Failed to generate PR description: " \o ErrorText(response.error), <<>>)
    ELSE IF Len(response.data) = 0
    THEN Err(EmptyContentMsg, <<>>)
    ELSE IF \/ response.data[Len(response.data)].type # "text"
            \/ response.data[Len(response.data)].text = None
    THEN Err(NonTextContentMsg, <<>>)
    ELSE Ok(response.data[Len(response.data)].text[1], <<>>)

generatePRDescriptionReturns(response) ==
    IF ~response.ok
    THEN Err("Failed to generate PR description: " \o ErrorText(response.error), <<>>)
    ELSE IF Len(response.data) = 0
    THEN Err(EmptyContentMsg, <<>>)
    ELSE IF response.data[1].type # "text" \/ response.data[1].text = None
    THEN Err(NonTextContentMsg, <<>>)
    ELSE Ok(response.data[1].text[1], <<>>)

----------------------------------------------------------------------------
(* What the run can be given and what the outside can answer.              *)

EventNames == {Some("pull_request"), Some("push"), None}

PayloadActions ==
    {Some("opened"), Some("synchronize"), Some("reopened"), Some("closed"), Some(""), None}

ValidPR ==
    [number |-> Some(7), title |-> Some("Add feature"), login |-> Some("octocat"),
     baseSha |-> Some("base"), headSha |-> Some("head"), html_url |-> Some("url")]

PullRequests ==
    { None,
      Some(ValidPR),
      Some([ValidPR EXCEPT !.headSha = None]),
      Some([ValidPR EXCEPT !.title = Some("")]),
      Some([ValidPR EXCEPT !.number = None]) }

Credentials == {"", "secret"}

\* an environment variable: not set, or set to a text
EnvValues == {None, Some("from env")}

IgnorePatternInputs ==
    { <<>>,
      <<"*">>,
      <<" ", "q", " ", ",", ",", "d", "/", "*", "*">> }

ApiErrors ==
    { [name |-> "HttpError", message |-> "Not Found"],
      [name |-> "Error", message |-> "Network timeout"] }

Answer(data) == [ok |-> TRUE, data |-> data, error |-> [name |-> "", message |-> ""]]
Failure(e) == [ok |-> FALSE, data |-> <<>>, error |-> e]

FileX == DiffGitA \o <<"x">> \o BMarker \o <<"x">>
FileDY == DiffGitA \o <<"d", "/", "y">> \o BMarker \o <<"d", "/", "y">>

\* what the compare request can answer
CompareAnswers ==
    {Answer(d) : d \in { <<>>, FileX \o <<"\n", "+", "x", "\n">> \o FileDY \o <<"\n">> }}
        \cup {Failure(e) : e \in ApiErrors}

Commit(sha, message) == [sha |-> sha, message |-> message]

\* what the listCommits request can answer
ListCommitsAnswers ==
    {Answer(cs) : cs \in
        { <<>>,
          << Commit(<<"a", "b", "c", "d", "e", "f", "1", "2">>, <<"m", "\n", "\n", "d">>),
             Commit(<<"a", "b">>, <<>>) >> }}
        \cup {Failure(e) : e \in ApiErrors}

Block(type, text) == [type |-> type, text |-> text]

\* what the model request can answer: a content list or a failure
ModelAnswers ==
    {Answer(c) : c \in
        { <<>>,
          << Block("text", Some("desc")) >>,
          << Block("text", Some("other")), Block("text", Some("desc")) >>,
          << Block("image", None), Block("text", Some("desc")) >>,
          << Block("text", None) >> }}
        \cup {Failure(e) : e \in ApiErrors}

\* what the update request can answer
UpdateAnswers == {Answer(<<>>)} \cup {Failure(e) : e \in ApiErrors}

OldBody == "old body"

Ops == {"compare", "listCommits", "createMessage", "update"}

----------------------------------------------------------------------------
(* run() of src/main.ts.                                                   *)

\* no function is called alone during a run or while filterDiff is exercised
UnitOff ==
    /\ uPhase = "off"
    /\ uFn = ""
    /\ uArg = <<>>
    /\ uOut = <<>>

FilterOff ==
    /\ fPhase = "off"
    /\ fDiff = <<>>
    /\ fPatterns = <<>>
    /\ fOut = [out |-> <<>>, log |-> <<>>, removed |-> 0]
    /\ fAgain = [out |-> <<>>, log |-> <<>>, removed |-> 0]

RunStart ==
    /\ prBody = OldBody
    /\ inputsRead = FALSE
    /\ config = None
    /\ prInfo = None
    /\ call = [op \in Ops |-> "idle"]
    /\ requests = <<>>
    /\ diff = None
    /\ commitMessages = None
    /\ newDescription = None
    /\ failedWith = <<>>
    /\ output = <<>>
    /\ exitCode = None
    /\ log = <<>>
    /\ steps = <<>>
    /\ answers = [op \in Ops |-> None]

Init ==
    /\ eventName \in EventNames
    /\ payload \in [action : PayloadActions, pull_request : PullRequests]
    /\ inputs \in [anthropicApiKey : Credentials, githubToken : Credentials,
                   ignorePatterns : IgnorePatternInputs]
    /\ env \in [ANTHROPIC_API_KEY : EnvValues, GITHUB_TOKEN : EnvValues]
    /\ pc = "start"
    /\ RunStart
    /\ FilterOff
    /\ UnitOff

\* a fault: the catch block logs the error and forgets core.setFailed
CaughtUnmarked(lg, message) ==
    /\ log' = Append(lg, Rec("error", "Error: " \o message, <<>>, 0))
    /\ UNCHANGED <<failedWith, exitCode>>
    /\ pc' = "failed"

\* the catch block of run(), after the records lg were logged
Caught(lg, message) ==
    /\ log' = Append(lg, Rec("error", "Error: " \o message, <<>>, 0))
    /\ failedWith' = Append(failedWith, message)
    /\ exitCode' = Some(1)
    /\ pc' = "failed"

\* one entry of the history of steps
Step(name, outcome, error) == [step |-> name, outcome |-> outcome, error |-> error]

\* the entry for a step that returned r
StepOf(name, r) == IF r.ok THEN Step(name, "ok", "") ELSE Step(name, "threw", r.error)

\* has the try block of run() been left
Left == pc \in {"failed", "exited", "done"}

\* a fault: the failure of the event check is logged and the run goes on
ValidateEventGoesOn ==
    /\ pc = "start"
    /\ LET r == validatePullRequestEvent(eventName)
           lg == Append(log, Rec("info", "Starting PR description automation...", <<>>, 0))
       IN  /\ pc' = "action"
           /\ log' = IF r.ok THEN lg ELSE Append(lg, Rec("error", "Error: " \o r.error, <<>>, 0))
           /\ UNCHANGED <<failedWith, exitCode>>
    /\ UNCHANGED <<eventName, payload, inputs, env, prBody, inputsRead, config, prInfo, call,
                   requests, diff, commitMessages, newDescription, output>>
    /\ steps' = Append(steps, StepOf("event", validatePullRequestEvent(eventName)))
    /\ UNCHANGED answers
    /\ UNCHANGED hvars

\* main.ts 20-22
ValidateEvent ==
    /\ pc = "start"
    /\ LET r == validatePullRequestEvent(eventName)
           lg == Append(log, Rec("info", "Starting PR description automation...", <<>>, 0))
       IN  IF r.ok
           THEN /\ pc' = "action"
                /\ log' = lg
                /\ UNCHANGED <<failedWith, exitCode>>
           ELSE Caught(lg, r.error)
    /\ UNCHANGED <<eventName, payload, inputs, env, prBody, inputsRead, config, prInfo, call,
                   requests, diff, commitMessages, newDescription, output>>
    /\ steps' = Append(steps, StepOf("event", validatePullRequestEvent(eventName)))
    /\ UNCHANGED answers
    /\ UNCHANGED hvars

\* main.ts 23
ValidateAction ==
    /\ pc = "action"
    /\ LET r == validatePullRequestAction(payload.action)
       IN  /\ log' = log \o r.log
           /\ IF r.proceed
              THEN pc' = "config" /\ UNCHANGED exitCode
              ELSE pc' = "exited" /\ exitCode' = Some(0)
    /\ UNCHANGED <<eventName, payload, inputs, env, prBody, inputsRead, config, prInfo, call,
                   requests, diff, commitMessages, newDescription, failedWith, output>>
    /\ steps' = Append(steps, Step("action",
                                  IF validatePullRequestAction(payload.action).proceed
                                  THEN "ok" ELSE "exit", ""))
    /\ UNCHANGED answers
    /\ UNCHANGED hvars

\* main.ts 24
GetConfig ==
    /\ pc = "config"
    /\ inputsRead' = TRUE
    /\ LET r == getConfig(inputs)
       IN  IF r.ok
           THEN /\ config' = r.value
                /\ log' = log \o r.log
                /\ pc' = "prinfo"
                /\ UNCHANGED <<failedWith, exitCode>>
           ELSE /\ Caught(log \o r.log, r.error)
                /\ UNCHANGED config
    /\ UNCHANGED <<eventName, payload, inputs, env, prBody, prInfo, call,
                   requests, diff, commitMessages, newDescription, output>>
    /\ steps' = Append(steps, StepOf("config", getConfig(inputs)))
    /\ UNCHANGED answers
    /\ UNCHANGED hvars

\* main.ts 25-32
ExtractPRInfo ==
    /\ pc = "prinfo"
    /\ LET r == extractPRInfo(payload.pull_request)
       IN  IF r.ok
           THEN /\ prInfo' = r.value
                /\ log' = log \o
                     << Rec("info", "Analyzing PR: " \o r.value[1].title, <<>>, 0),
                        Rec("info", "Author: " \o r.value[1].author, <<>>, 0),
                        Rec("info", "Base SHA: " \o r.value[1].baseSha, <<>>, 0),
                        Rec("info", "Head SHA: " \o r.value[1].headSha, <<>>, 0) >>
                /\ pc' = "fetch"
                /\ UNCHANGED <<failedWith, exitCode>>
           ELSE /\ Caught(log, r.error)
                /\ UNCHANGED prInfo
    /\ UNCHANGED <<eventName, payload, inputs, env, prBody, inputsRead, config, call,
                   requests, diff, commitMessages, newDescription, output>>
    /\ steps' = Append(steps, StepOf("prinfo", extractPRInfo(payload.pull_request)))
    /\ UNCHANGED answers
    /\ UNCHANGED hvars

\* a request: the operation, the pull_number it names, the text it carries (the
\* basehead, the API key or the body) and the PRContext handed to the model
Request(op, number, text, context) ==
    [op |-> op, number |-> number, text |-> text, context |-> context]

\* a fault: the diff is awaited before getCommitMessages is called
StartFetchesDiffFirst ==
    /\ pc = "fetch"
    /\ log' = Append(log, Rec("info", "Generating diff using GitHub API...", <<>>, 0))
    /\ requests' = Append(requests,
            Request("compare", None, prInfo[1].baseSha \o "..." \o prInfo[1].headSha, None))
    /\ call' = [call EXCEPT !["compare"] = "inflight"]
    /\ pc' = "join"
    /\ UNCHANGED <<eventName, payload, inputs, env, prBody, inputsRead, config, prInfo,
                   diff, commitMessages, newDescription, failedWith, output, exitCode>>
    /\ UNCHANGED <<steps, answers>>
    /\ UNCHANGED hvars

\* main.ts 34-42: both adapters are called, each issues its request, then
\* Promise.all waits for both
StartFetches ==
    /\ pc = "fetch"
    /\ log' = log \o
         << Rec("info", "Generating diff using GitHub API...", <<>>, 0),
            Rec("info", "Getting commit messages using GitHub API...", <<>>, 0) >>
    /\ requests' = requests \o
         << Request("compare", None, prInfo[1].baseSha \o "..." \o prInfo[1].headSha, None),
            Request("listCommits", prInfo[1].number, "", None) >>
    /\ call' = [call EXCEPT !["compare"] = "inflight", !["listCommits"] = "inflight"]
    /\ pc' = "join"
    /\ UNCHANGED <<eventName, payload, inputs, env, prBody, inputsRead, config, prInfo,
                   diff, commitMessages, newDescription, failedWith, output, exitCode>>
    /\ UNCHANGED <<steps, answers>>
    /\ UNCHANGED hvars

\* a fault: the join goes on as soon as one fetch is fulfilled
JoinCompleteAny(other) == TRUE

\* Promise.all of main.ts 34: with this fetch fulfilled, is the other one too
JoinComplete(other) == call[other] = "ok"

\* main.ts 34-42 and github.ts 53-80: the compare request answers
CompareResponds ==
    /\ call["compare"] = "inflight"
    /\ \E response \in CompareAnswers :
         LET r == generateDiffReturns(response, config[1].ignoredPatterns)
         IN  /\ steps' = Append(steps, StepOf("diff", r))
             /\ answers' = [answers EXCEPT !["compare"] = Some(response)]
             /\ IF r.ok
                THEN /\ call' = [call EXCEPT !["compare"] = "ok"]
                     /\ diff' = r.value
                     /\ log' = log \o r.log
                     /\ pc' = IF pc = "join" /\ JoinComplete("listCommits")
                              THEN "generate" ELSE pc
                     /\ UNCHANGED <<failedWith, exitCode>>
                ELSE /\ call' = [call EXCEPT !["compare"] = "err"]
                     /\ UNCHANGED diff
                     /\ IF pc = "join"
                        THEN Caught(log, r.error)
                        ELSE UNCHANGED <<log, failedWith, exitCode, pc>>
    /\ UNCHANGED <<eventName, payload, inputs, env, prBody, inputsRead, config, prInfo,
                   requests, commitMessages, newDescription, output>>
    /\ UNCHANGED hvars

\* a fault: a rejection that comes after the join was left is reported as well
ListCommitsRespondsReportsAgain ==
    /\ call["listCommits"] = "inflight"
    /\ \E response \in ListCommitsAnswers :
         LET r == getCommitMessagesReturns(response)
         IN  /\ steps' = Append(steps, StepOf("commits", r))
             /\ answers' = [answers EXCEPT !["listCommits"] = Some(response)]
             /\ IF r.ok
                THEN /\ call' = [call EXCEPT !["listCommits"] = "ok"]
                     /\ commitMessages' = r.value
                     /\ log' = log \o r.log
                     /\ pc' = IF pc = "join" /\ JoinComplete("compare")
                              THEN "generate" ELSE pc
                     /\ UNCHANGED <<failedWith, exitCode>>
                ELSE /\ call' = [call EXCEPT !["listCommits"] = "err"]
                     /\ UNCHANGED commitMessages
                     /\ Caught(log, r.error)
    /\ UNCHANGED <<eventName, payload, inputs, env, prBody, inputsRead, config, prInfo,
                   requests, diff, newDescription, output>>
    /\ UNCHANGED hvars

\* main.ts 34-42 and github.ts 82-107: the listCommits request answers
ListCommitsResponds ==
    /\ call["listCommits"] = "inflight"
    /\ \E response \in ListCommitsAnswers :
         LET r == getCommitMessagesReturns(response)
         IN  /\ steps' = Append(steps, StepOf("commits", r))
             /\ answers' = [answers EXCEPT !["listCommits"] = Some(response)]
             /\ IF r.ok
                THEN /\ call' = [call EXCEPT !["listCommits"] = "ok"]
                     /\ commitMessages' = r.value
                     /\ log' = log \o r.log
                     /\ pc' = IF pc = "join" /\ JoinComplete("compare")
                              THEN "generate" ELSE pc
                     /\ UNCHANGED <<failedWith, exitCode>>
                ELSE /\ call' = [call EXCEPT !["listCommits"] = "err"]
                     /\ UNCHANGED commitMessages
                     /\ IF pc = "join"
                        THEN Caught(log, r.error)
                        ELSE UNCHANGED <<log, failedWith, exitCode, pc>>
    /\ UNCHANGED <<eventName, payload, inputs, env, prBody, inputsRead, config, prInfo,
                   requests, diff, newDescription, output>>
    /\ UNCHANGED hvars

\* main.ts 44-53: the PRContext is built and the model is called
StartGenerate ==
    /\ pc = "generate"
    /\ requests' = Append(requests,
                          Request("createMessage", None, config[1].anthropicApiKey,
                                  Some([prInfo |-> prInfo,
                                        commitMessages |-> commitMessages,
                                        diff |-> diff])))
    /\ call' = [call EXCEPT !["createMessage"] = "inflight"]
    /\ pc' = "generating"
    /\ UNCHANGED <<eventName, payload, inputs, env, prBody, inputsRead, config, prInfo,
                   diff, commitMessages, newDescription, failedWith, output, exitCode, log>>
    /\ UNCHANGED <<steps, answers>>
    /\ UNCHANGED hvars

\* a fault: a failed model call is not reported, the run waits on
ModelRespondsHangs ==
    /\ pc = "generating"
    /\ call["createMessage"] = "inflight"
    /\ \E response \in ModelAnswers :
         LET r == generatePRDescriptionReturns(response)
         IN  /\ steps' = Append(steps, StepOf("generate", r))
             /\ answers' = [answers EXCEPT !["createMessage"] = Some(response)]
             /\ IF r.ok
                THEN /\ call' = [call EXCEPT !["createMessage"] = "ok"]
                     /\ newDescription' = r.value
                     /\ pc' = "update"
                     /\ UNCHANGED <<log, failedWith, exitCode>>
                ELSE /\ call' = [call EXCEPT !["createMessage"] = "err"]
                     /\ UNCHANGED <<newDescription, log, failedWith, exitCode, pc>>
    /\ UNCHANGED <<eventName, payload, inputs, env, prBody, inputsRead, config, prInfo,
                   requests, diff, commitMessages, output>>
    /\ UNCHANGED hvars

\* main.ts 50-53: the model answers
ModelResponds ==
    /\ pc = "generating"
    /\ call["createMessage"] = "inflight"
    /\ \E response \in ModelAnswers :
         LET r == generatePRDescriptionReturns(response)
         IN  /\ steps' = Append(steps, StepOf("generate", r))
             /\ answers' = [answers EXCEPT !["createMessage"] = Some(response)]
             /\ IF r.ok
                THEN /\ call' = [call EXCEPT !["createMessage"] = "ok"]
                     /\ newDescription' = r.value
                     /\ pc' = "update"
                     /\ UNCHANGED <<log, failedWith, exitCode>>
                ELSE /\ call' = [call EXCEPT !["createMessage"] = "err"]
                     /\ UNCHANGED newDescription
                     /\ Caught(log, r.error)
    /\ UNCHANGED <<eventName, payload, inputs, env, prBody, inputsRead, config, prInfo,
                   requests, diff, commitMessages, output>>
    /\ UNCHANGED hvars

\* a fault: the output is set when the update request is issued, before it answers
StartUpdateSetsOutput ==
    /\ pc = "update"
    /\ log' = Append(log, Rec("info", "Updating PR description...", <<>>, 0))
    /\ requests' = Append(requests, Request("update", prInfo[1].number,
                                           UpdateBody(newDescription[1]), None))
    /\ call' = [call EXCEPT !["update"] = "inflight"]
    /\ pc' = "updating"
    /\ output' = Append(output, [name |-> "description", value |-> newDescription[1]])
    /\ UNCHANGED <<eventName, payload, inputs, env, prBody, inputsRead, config, prInfo,
                   diff, commitMessages, newDescription, failedWith, exitCode>>
    /\ UNCHANGED <<steps, answers>>
    /\ UNCHANGED hvars

\* main.ts 55 and github.ts 112-121: the update request is issued
StartUpdate ==
    /\ pc = "update"
    /\ log' = Append(log, Rec("info", "Updating PR description...", <<>>, 0))
    /\ requests' = Append(requests, Request("update", prInfo[1].number,
                                           UpdateBody(newDescription[1]), None))
    /\ call' = [call EXCEPT !["update"] = "inflight"]
    /\ pc' = "updating"
    /\ UNCHANGED <<eventName, payload, inputs, env, prBody, inputsRead, config, prInfo,
                   diff, commitMessages, newDescription, failedWith, output, exitCode>>
    /\ UNCHANGED <<steps, answers>>
    /\ UNCHANGED hvars

\* a fault: the output is the body the pull request had before
OutputValueOldBody == prBody

\* the value run() reports as the output `description`
OutputValue == newDescription[1]

\* a fault: a failed update is tried again
UpdateRespondsRetries ==
    /\ pc = "updating"
    /\ call["update"] = "inflight"
    /\ \E response \in UpdateAnswers :
         LET r == updatePRDescriptionReturns(response)
         IN  /\ steps' = Append(steps, StepOf("update", r))
             /\ answers' = [answers EXCEPT !["update"] = Some(response)]
             /\ IF r.ok
                THEN /\ call' = [call EXCEPT !["update"] = "ok"]
                     /\ prBody' = requests[Len(requests)].text
                     /\ log' = log \o r.log \o
                          << Rec("info", "PR description updated successfully! View at: "
                                             \o prInfo[1].url, <<>>, 0) >>
                     /\ output' = Append(output, [name |-> "description", value |-> OutputValue])
                     /\ pc' = "done"
                     /\ UNCHANGED <<failedWith, exitCode>>
                ELSE /\ call' = [call EXCEPT !["update"] = "err"]
                     /\ pc' = "update"
                     /\ UNCHANGED <<log, failedWith, exitCode>>
                     /\ UNCHANGED <<prBody, output>>
    /\ UNCHANGED <<eventName, payload, inputs, env, inputsRead, config, prInfo,
                   requests, diff, commitMessages, newDescription>>
    /\ UNCHANGED hvars

\* main.ts 55-58 and github.ts 121-129: the update request answers
UpdateResponds ==
    /\ pc = "updating"
    /\ call["update"] = "inflight"
    /\ \E response \in UpdateAnswers :
         LET r == updatePRDescriptionReturns(response)
         IN  /\ steps' = Append(steps, StepOf("update", r))
             /\ answers' = [answers EXCEPT !["update"] = Some(response)]
             /\ IF r.ok
                THEN /\ call' = [call EXCEPT !["update"] = "ok"]
                     /\ prBody' = requests[Len(requests)].text
                     /\ log' = log \o r.log \o
                          << Rec("info", "PR description updated successfully! View at: "
                                             \o prInfo[1].url, <<>>, 0) >>
                     /\ output' = Append(output, [name |-> "description", value |-> OutputValue])
                     /\ pc' = "done"
                     /\ UNCHANGED <<failedWith, exitCode>>
                ELSE /\ call' = [call EXCEPT !["update"] = "err"]
                     /\ Caught(log, r.error)
                     /\ UNCHANGED <<prBody, output>>
    /\ UNCHANGED <<eventName, payload, inputs, env, inputsRead, config, prInfo,
                   requests, diff, commitMessages, newDescription>>
    /\ UNCHANGED hvars

Next ==
    \/ ValidateEvent
    \/ ValidateAction
    \/ GetConfig
    \/ ExtractPRInfo
    \/ StartFetches
    \/ CompareResponds
    \/ ListCommitsResponds
    \/ StartGenerate
    \/ ModelResponds
    \/ StartUpdate
    \/ UpdateResponds

Spec == Init /\ [][Next]_vars

\* the statements of run() between two awaits: the thread runs them when it is
\* their turn
RunStep ==
    \/ ValidateEvent
    \/ ValidateAction
    \/ GetConfig
    \/ ExtractPRInfo
    \/ StartFetches
    \/ StartGenerate
    \/ StartUpdate

\* every external request that was issued eventually returns or fails, and
\* run() goes on when it can
Fairness ==
    /\ WF_vars(RunStep)
    /\ WF_vars(CompareResponds)
    /\ WF_vars(ListCommitsResponds)
    /\ WF_vars(ModelResponds)
    /\ WF_vars(UpdateResponds)

FairSpec == Spec /\ Fairness

----------------------------------------------------------------------------
(* The inputs of filterDiff.                                               *)

\* the pieces the diffs of the model are made of
DiffFragments ==
    { DiffGit,
      <<"a", "/">>,
      BMarker,
      <<"\n">>,
      <<"x">>,
      DiffGitA \o <<"x">> \o BMarker \o <<"x">>,
      DiffGitA \o <<"d", "/", "y">> \o BMarker \o <<"d", "/", "y">> }

FragSeqs == UNION {[1..n -> DiffFragments] : n \in 0..MaxFrags}

Diffs == {Flatten(fs) : fs \in FragSeqs}

\* the ignore-pattern lists of the model
PatternLists ==
    { <<>>,
      << <<"*">> >>,
      << <<"q">>, <<"d", "/", "*", "*">> >>,
      << <<"q">> >> }

NoOut == [out |-> <<>>, log |-> <<>>, removed |-> 0]

\* no run is going on while filterDiff is exercised alone
RunOff ==
    /\ eventName = None
    /\ payload = [action |-> None, pull_request |-> None]
    /\ inputs = [anthropicApiKey |-> "", githubToken |-> "", ignorePatterns |-> <<>>]
    /\ env = [ANTHROPIC_API_KEY |-> None, GITHUB_TOKEN |-> None]
    /\ pc = "off"
    /\ RunStart

FilterInit ==
    /\ fPhase = "input"
    /\ fDiff \in Diffs
    /\ fPatterns \in PatternLists
    /\ fOut = NoOut
    /\ fAgain = NoOut
    /\ RunOff
    /\ UnitOff

\* a call filterDiff(fDiff, fPatterns)
ApplyFilter ==
    /\ fPhase = "input"
    /\ fPhase' = "filtered"
    /\ fOut' = filterDiff(fDiff, fPatterns)
    /\ UNCHANGED <<fDiff, fPatterns, fAgain>>
    /\ UNCHANGED rvars
    /\ UNCHANGED uvars

\* a second call, on the result of the first: filterDiff(fOut.out, fPatterns)
ApplyFilterAgain ==
    /\ fPhase = "filtered"
    /\ fPhase' = "refiltered"
    /\ fAgain' = filterDiff(fOut.out, fPatterns)
    /\ UNCHANGED <<fDiff, fPatterns, fOut>>
    /\ UNCHANGED rvars
    /\ UNCHANGED uvars

FilterNext ==
    \/ ApplyFilter
    \/ ApplyFilterAgain

FilterSpec == FilterInit /\ [][FilterNext]_vars

----------------------------------------------------------------------------
(* The validators and adapters called alone, each on the inputs below.     *)

\* the revision ids of the model: shorter than 7 characters, 7, and longer
Shas ==
    { <<"a", "b">>,
      <<"a", "b", "c", "d", "e", "f", "1">>,
      <<"a", "b", "c", "d", "e", "f", "1", "2">> }

\* the commit messages of the model
Messages == { <<>>, <<"m">>, <<"m", "\n", "d">>, <<"\n", "m">> }

Commits == {Commit(sha, message) : sha \in Shas, message \in Messages}

CommitLists == UNION {[1..n -> Commits] : n \in 0..MaxCommits}

\* what getCommitMessages can get from listCommits
ListCommitsResponses ==
    {Answer(cs) : cs \in CommitLists} \cup {Failure(e) : e \in ApiErrors}

\* the event names a run can have, context.eventName
AllEventNames ==
    { Some("pull_request"), Some("push"), Some("pull_request_target"),
      Some("pull_request_review"), Some("Pull_Request"), Some(""), None }

\* a field of the payload: absent or null, empty, or a text
Field(text) == {None, Some(""), Some(text)}

\* the pull_request objects of a payload, context.payload.pull_request
AllPullRequests ==
    {None} \cup
    {Some(pr) : pr \in [number : {None, Some(7)}, title : Field("Add feature"),
                        login : Field("octocat"), baseSha : Field("base"),
                        headSha : Field("head"), html_url : Field("url")]}

\* the characters of the `ignore-patterns` inputs of the model
InputChars == {",", " ", "q", "*"}

\* the `ignore-patterns` inputs of the model
AllIgnorePatternInputs == UNION {[1..n -> InputChars] : n \in 0..MaxInputLen}

\* the inputs getConfig reads
AllInputs ==
    [anthropicApiKey : Credentials, githubToken : Credentials,
     ignorePatterns : AllIgnorePatternInputs]

\* the content blocks of the model: text, text with blanks around it, a text
\* block without text, and blocks of other types
AllBlocks ==
    { Block("text", Some("desc")), Block("text", Some(" other\n")),
      Block("text", None), Block("image", None), Block("tool_use", None) }

\* what generatePRDescription can get from the model
ModelResponses ==
    {Answer(c) : c \in UNION {[1..n -> AllBlocks] : n \in 0..MaxBlocks}}
        \cup {Failure(e) : e \in ApiErrors}

UnitInit ==
    /\ uPhase = "input"
    /\ \/ uFn = "getCommitMessages" /\ uArg \in ListCommitsResponses
       \/ uFn = "validatePullRequestEvent" /\ uArg \in AllEventNames
       \/ uFn = "extractPRInfo" /\ uArg \in AllPullRequests
       \/ uFn = "getConfig" /\ uArg \in AllInputs
       \/ uFn = "generatePRDescription" /\ uArg \in ModelResponses
    /\ uOut = <<>>
    /\ RunOff
    /\ FilterOff

\* the call returns or throws
Returned(fn, result) ==
    /\ uPhase = "input"
    /\ uFn = fn
    /\ uPhase' = "returned"
    /\ uOut' = result
    /\ UNCHANGED <<uFn, uArg>>
    /\ UNCHANGED rvars
    /\ UNCHANGED fvars

CallGetCommitMessages == Returned("getCommitMessages", getCommitMessagesReturns(uArg))

CallValidatePullRequestEvent ==
    Returned("validatePullRequestEvent", validatePullRequestEvent(uArg))

CallExtractPRInfo == Returned("extractPRInfo", extractPRInfo(uArg))

CallGetConfig == Returned("getConfig", getConfig(uArg))

CallGeneratePRDescription ==
    Returned("generatePRDescription", generatePRDescriptionReturns(uArg))

UnitNext ==
    \/ CallGetCommitMessages
    \/ CallValidatePullRequestEvent
    \/ CallExtractPRInfo
    \/ CallGetConfig
    \/ CallGeneratePRDescription

UnitSpec == UnitInit /\ [][UnitNext]_vars


----------------------------------------------------------------------------
(* Properties of run().                                                    *)

Issued(op) == \E k \in 1..Len(requests) : requests[k].op = op

StepOk(name) == \E k \in 1..Len(steps) : steps[k] = Step(name, "ok", "")

StepThrew(name) ==
    \E k \in 1..Len(steps) : steps[k].step = name /\ steps[k].outcome = "threw"

\* the steps that have failed so far
Threw == {k \in 1..Len(steps) : steps[k].outcome = "threw"}

\* the text of the first content block the model answered
ModelText == answers["createMessage"][1].data[1].text[1]

AllSucceeded == \A op \in Ops : call[op] = "ok"

\* C1: when the event is pull_request, the action is allowed, the credentials
\* and the PR payload are valid and the four external operations succeed, the
\* update request carries the model's text as its body, the output `description`
\* is set once, to that text and only after the update succeeded, and the run
\* is not marked failed.
C1_SuccessfulRun ==
    /\ AllSucceeded =>
          /\ \E k \in 1..Len(requests) : requests[k] = Request("update", payload.pull_request[1].number, ModelText, None)
          /\ Cardinality({k \in 1..Len(requests) : requests[k].op = "update"}) = 1
          /\ output = << [name |-> "description", value |-> ModelText] >>
          /\ failedWith = <<>>
          /\ exitCode = None
    /\ output # <<>> => call["update"] = "ok"

C1_Witness == AllSucceeded /\ pc = "done" /\ output # <<>> /\ prBody = "desc"

\* C2 as stated: whenever a step other than action validation fails, the run
\* is marked failed exactly once, with that error's message as the reason, and
\* the output is never set.
C2_EveryFailureIsTheReason ==
    \A k \in Threw : failedWith = << steps[k].error >> /\ output = <<>>

\* C2, amended: whenever a step other than action validation fails, the run
\* is marked failed exactly once, the reason is the message of the first step
\* that failed, the error logged is that message, and the output is never set.
C2_FirstFailureIsTheReason ==
    Threw # {} =>
        LET first == CHOOSE k \in Threw : \A j \in Threw : k <= j IN
        /\ failedWith = << steps[first].error >>
        /\ Cardinality({k \in 1..Len(log) : log[k].level = "error"}) = 1
        /\ \E k \in 1..Len(log) :
              log[k] = Rec("error", "Error: " \o steps[first].error, <<>>, 0)
        /\ exitCode = Some(1)
        /\ output = <<>>

C2_Witness == StepThrew("diff") /\ StepThrew("commits") /\ Len(failedWith) = 1

\* C3: for a pull_request event the run goes past action validation exactly
\* when the payload action is opened, synchronize or reopened; for any other
\* action (absent or empty is logged as `unknown`) it logs the skip and exits
\* with code 0, having read no input, issued no request, set no output and
\* marked no failure.
C3_ActionGate ==
    (eventName = Some("pull_request") /\ \E k \in 1..Len(steps) : steps[k].step = "action") =>
        IF payload.action \in {Some("opened"), Some("synchronize"), Some("reopened")}
        THEN pc \notin {"start", "action", "exited"} /\ exitCode # Some(0)
        ELSE /\ pc = "exited"
             /\ exitCode = Some(0)
             /\ log[Len(log)] =
                   Rec("info",
                       "Skipping action for PR action: " \o
                           (IF payload.action \in {None, Some("")}
                            THEN "unknown" ELSE payload.action[1]),
                       <<>>, 0)
             /\ ~inputsRead
             /\ requests = <<>>
             /\ output = <<>>
             /\ failedWith = <<>>

C3_Witness ==
    /\ eventName = Some("pull_request")
    /\ payload.action = Some("closed")
    /\ pc = "exited"

\* C4: the model request is issued only after the diff fetch and the commit
\* fetch have both succeeded, and the update request only after the model call
\* has succeeded; once a fetch has failed neither request is ever issued, and
\* once the model call has failed the update request is never issued.
C4_Ordering ==
    /\ Issued("createMessage") => StepOk("diff") /\ StepOk("commits")
    /\ Issued("update") => StepOk("generate")
    /\ (StepThrew("diff") \/ StepThrew("commits")) =>
          ~Issued("createMessage") /\ ~Issued("update")
    /\ StepThrew("generate") => ~Issued("update")

C4_Witness == StepOk("commits") /\ StepThrew("diff") /\ pc = "failed"

\* the three adapters of src/github.ts: the request, the step, the prefix
Adapters ==
    { [op |-> "compare", step |-> "diff", prefix |-> "Failed to generate diff: "],
      [op |-> "listCommits", step |-> "commits", prefix |-> "Failed to get commit messages: "],
      [op |-> "update", step |-> "update", prefix |-> "Failed to update PR description: "] }

\* the request of the adapter was answered with a failure
ApiFailed(a) == answers[a.op] # None /\ ~answers[a.op][1].ok

\* the error the request of the adapter failed with
ApiError(a) == answers[a.op][1].error

\* the adapter threw an Error with this message
ThrewMessage(a, message) ==
    \E k \in 1..Len(steps) : steps[k] = Step(a.step, "threw", message)

\* C13 as stated, the error text T being the message of the API error: each
\* adapter fails with its own prefix immediately followed by T, nothing in
\* between.
C13_PrefixThenMessage ==
    \A a \in Adapters :
        ApiFailed(a) => ThrewMessage(a, a.prefix \o ApiError(a).message)

\* C13, amended: when its API call fails, each adapter fails with its own
\* prefix followed by the string form of the API error, `<name>: <message>`,
\* so the name of the error and `: ` stand between the prefix and the message;
\* the messages of two adapters differ for the same API error.
C13_PrefixThenErrorString ==
    \A a \in Adapters :
        ApiFailed(a) =>
            /\ ThrewMessage(a, a.prefix \o ApiError(a).name \o ": " \o ApiError(a).message)
            /\ \A b \in Adapters \ {a} :
                  ~ThrewMessage(a, b.prefix \o ApiError(a).name \o ": " \o ApiError(a).message)

C13_Witness ==
    /\ answers["update"] = Some(Failure([name |-> "HttpError", message |-> "Not Found"]))
    /\ StepThrew("update")
    /\ failedWith = << "Failed to update PR description: HttpError: Not Found" >>

\* how many requests of the operation were issued
Invocations(op) == Cardinality({k \in 1..Len(requests) : requests[k].op = op})

\* C14: in a run each of the four external operations is invoked at most
\* once: an operation that has been answered, with success or with failure,
\* was invoked exactly once and no second request of it is ever issued.
C14_NoRetry ==
    \A op \in Ops :
        /\ Invocations(op) <= 1
        /\ call[op] # "idle" => Invocations(op) = 1
        /\ answers[op] # None => Invocations(op) = 1

C14_Witness ==
    /\ call = [op \in Ops |-> IF op = "update" THEN "err" ELSE "ok"]
    /\ pc = "failed"
    /\ \A op \in Ops : Invocations(op) = 1

\* has the step been taken in this run
StepDone(name) == \E k \in 1..Len(steps) : steps[k].step = name

\* a credential as the specification resolves it: the input when it is not
\* empty, otherwise the environment variable when it is set
Resolved(input, variable) == IF input # "" THEN Some(input) ELSE variable

ResolvedKey == Resolved(inputs.anthropicApiKey, env.ANTHROPIC_API_KEY)

ResolvedToken == Resolved(inputs.githubToken, env.GITHUB_TOKEN)

\* C17: the configuration of the run takes each credential from its input
\* when that is not empty and otherwise from its environment variable
\* (ANTHROPIC_API_KEY, GITHUB_TOKEN) when that is set, each on its own; so a
\* run with empty inputs and both variables set resolves its configuration.
C17_EnvFallback ==
    (StepDone("config") /\ ResolvedKey # None /\ ResolvedToken # None) =>
        /\ StepOk("config")
        /\ config # None
        /\ config[1].anthropicApiKey = ResolvedKey[1]
        /\ config[1].githubToken = ResolvedToken[1]

\* C18: the configuration is returned only when both credentials resolve to
\* texts that are not empty; when the model-API key is missing the failure is
\* the message beginning `Anthropic API key not found`, also when the token is
\* missing too, and when only the token is missing it is the message
\* beginning `GitHub token not found`.
C18_MissingCredential ==
    StepDone("config") =>
        /\ StepOk("config") =>
              /\ config # None
              /\ config[1].anthropicApiKey # ""
              /\ config[1].githubToken # ""
        /\ ResolvedKey = None =>
              \E k \in 1..Len(steps) : steps[k] = Step("config", "threw", NoAnthropicKeyMsg)
        /\ (ResolvedKey # None /\ ResolvedToken = None) =>
              \E k \in 1..Len(steps) : steps[k] = Step("config", "threw", NoGithubTokenMsg)

\* the four validation steps of run(), in the order of main.ts 22-25
ValidationOrder == <<"event", "action", "config", "prinfo">>

\* the validation steps taken so far, in the order taken
ValidationSteps == SelectSeq(steps, LAMBDA st : \E k \in 1..4 : st.step = ValidationOrder[k])

\* C21: the validation steps are taken in the order event check, action
\* check, config resolution, PR-info extraction, each at most once, and the
\* first that fails or skips is the last step of the run; so a
\* non-pull_request event with a disallowed action ends failed and not
\* skipped, a missing credential together with a missing pull request gives
\* the credential message, and no request is issued once one of the four
\* steps has failed or skipped.
C21_ValidationOrder ==
    /\ Len(ValidationSteps) <= 4
    /\ \A k \in 1..Len(ValidationSteps) :
          /\ ValidationSteps[k].step = ValidationOrder[k]
          /\ steps[k] = ValidationSteps[k]
          /\ ValidationSteps[k].outcome # "ok" =>
                /\ Len(steps) = k
                /\ requests = <<>>
                /\ call = [op \in Ops |-> "idle"]
    /\ (StepDone("event") /\ eventName # Some("pull_request")) =>
          /\ pc = "failed"
          /\ failedWith = << "This action can only be used in pull request events." >>
          /\ exitCode = Some(1)
    /\ (StepDone("config")
            /\ (inputs.anthropicApiKey = "" \/ inputs.githubToken = "")
            /\ payload.pull_request = None) =>
          /\ pc = "failed"
          /\ failedWith \in { << NoAnthropicKeyMsg >>, << NoGithubTokenMsg >> }
          /\ ~StepDone("prinfo")

C21_Witness ==
    /\ eventName = Some("push")
    /\ payload.action = Some("closed")
    /\ pc = "failed"
    /\ Len(steps) = 1
    /\ exitCode = Some(1)

\* the fetches that have failed so far, as positions in the history of steps
FailedFetches ==
    {k \in 1..Len(steps) : steps[k].step \in {"diff", "commits"} /\ steps[k].outcome = "threw"}

\* C22: once one of the two fetches has failed, the run is marked failed with
\* the message of the fetch that failed first, and whatever the other fetch
\* does, before or after, there is one failure report with that reason, no
\* model call and no PR update.
C22_FirstRejectionOnly ==
    FailedFetches # {} =>
        LET first == CHOOSE k \in FailedFetches : \A j \in FailedFetches : k <= j IN
        /\ pc = "failed"
        /\ failedWith = << steps[first].error >>
        /\ SelectSeq(log, LAMBDA rec : rec.level = "error") =
              << Rec("error", "Error: " \o steps[first].error, <<>>, 0) >>
        /\ exitCode = Some(1)
        /\ call["createMessage"] = "idle"
        /\ call["update"] = "idle"
        /\ \A k \in 1..Len(requests) : requests[k].op \in {"compare", "listCommits"}
        /\ prBody = OldBody
        /\ output = <<>>

C22_Witness ==
    /\ Len(steps) = 6
    /\ steps[5] = Step("commits", "threw", "Failed to get commit messages: HttpError: Not Found")
    /\ steps[6] = Step("diff", "threw", "Failed to generate diff: Error: Network timeout")
    /\ failedWith = << "Failed to get commit messages: HttpError: Not Found" >>

\* what the two fetches give for the answers their requests got, whichever
\* came first
DiffOfAnswer == generateDiffReturns(answers["compare"][1], config[1].ignoredPatterns).value

CommitsOfAnswer == getCommitMessagesReturns(answers["listCommits"][1]).value

\* C23: the compare request and the listCommits request are both issued
\* before either is answered, and the diff, the commit summary and the
\* PRContext handed to the generator are determined by the two answers alone,
\* the same in every order of their arrival: the diff by the answer of
\* compare, the commit summary by the answer of listCommits.
C23_ForkJoin ==
    /\ (call["compare"] # "idle" \/ call["listCommits"] # "idle") =>
          /\ Len(requests) >= 2
          /\ requests[1].op = "compare"
          /\ requests[2].op = "listCommits"
          /\ call["compare"] # "idle"
          /\ call["listCommits"] # "idle"
    /\ diff # None => diff = DiffOfAnswer
    /\ commitMessages # None => commitMessages = CommitsOfAnswer
    /\ \A k \in 1..Len(requests) :
          requests[k].op = "createMessage" =>
              requests[k].context =
                  Some([prInfo |-> prInfo,
                        commitMessages |-> CommitsOfAnswer,
                        diff |-> DiffOfAnswer])

C23_Witness ==
    /\ Len(steps) >= 6
    /\ steps[5] = Step("commits", "ok", "")
    /\ steps[6] = Step("diff", "ok", "")
    /\ Issued("createMessage")
    /\ diff # Some(<<>>)
    /\ commitMessages # Some(<<>>)

\* C24: every PRInfo extracted carries a PR number, the one of the payload,
\* so the listCommits request and the update request are issued with a
\* defined PR number; a payload whose pull request has no number does not get
\* past the extraction of the PR info.
C24_NumberDefined ==
    /\ prInfo # None =>
          /\ prInfo[1].number # None
          /\ prInfo[1].number = payload.pull_request[1].number
    /\ \A k \in 1..Len(requests) :
          requests[k].op \in {"listCommits", "update"} => requests[k].number # None
    /\ (payload.pull_request # None /\ payload.pull_request[1].number = None) =>
          ~StepOk("prinfo")

\* the pull request carries another body than before the run
BodyModified == prBody # OldBody

OutputSet == \E k \in 1..Len(output) : output[k].name = "description"

MarkedFailed == failedWith # <<>>

Skipped == pc = "exited" /\ exitCode = Some(0)

\* C29: the body of the pull request is modified exactly when the run has
\* ended successful with the output `description` set; a run that is skipped
\* or marked failed has left the body as it was, and no run both sets the
\* output and is marked failed.
C29_BodyIffSuccess ==
    /\ BodyModified <=> (pc = "done" /\ OutputSet /\ ~MarkedFailed)
    /\ call["update"] = "ok" <=> (pc = "done" /\ OutputSet /\ ~MarkedFailed)
    /\ (Skipped \/ MarkedFailed) => ~BodyModified
    /\ ~(OutputSet /\ MarkedFailed)

C29_Witness ==
    /\ pc = "done"
    /\ BodyModified
    /\ prBody = "other"
    /\ output = << [name |-> "description", value |-> "other"] >>
    /\ failedWith = <<>>

\* the three ways a run ends
EndedSkipped == Skipped /\ output = <<>> /\ failedWith = <<>>

EndedFailed == pc = "failed" /\ Len(failedWith) = 1 /\ exitCode = Some(1) /\ output = <<>>

EndedSucceeded == pc = "done" /\ Len(output) = 1 /\ OutputSet /\ failedWith = <<>>

Terminal == EndedSkipped \/ EndedFailed \/ EndedSucceeded

\* what a run leaves behind, the log apart
Outcome == <<pc, failedWith, exitCode, output, prBody, requests>>

\* a fetch that the join no longer waits for answers
AbandonedFetchAnswers ==
    /\ pc = "failed"
    /\ \E op \in {"compare", "listCommits"} :
          /\ call[op] = "inflight"
          /\ call'[op] # "inflight"
          /\ \A other \in Ops \ {op} : call'[other] = call[other]

\* C30 as stated: when every request that is issued is answered, every run
\* reaches one of the three terminal outcomes (skipped with exit code 0,
\* marked failed, succeeded with the output set) and takes no step after it.
C30_TerminatesAndStops ==
    /\ <>Terminal
    /\ [][~Terminal]_vars

\* C30, amended: when every request that is issued is answered, every run
\* reaches one of the three terminal outcomes and keeps it for good: the only
\* step that can follow is the answer of the other fetch when one fetch of
\* the pair has failed, and it changes neither the failure reason, the exit
\* code, the output, the PR body nor the requests issued.
C30_TerminatesAndKeepsOutcome ==
    /\ <>Terminal
    /\ [][Terminal => (Terminal' /\ Outcome' = Outcome /\ AbandonedFetchAnswers)]_vars

C30_Witness ==
    /\ EndedFailed
    /\ call["compare"] = "err"
    /\ call["listCommits"] = "ok"
    /\ \E j, k \in 1..Len(steps) :
          /\ j < k
          /\ steps[j].step = "diff" /\ steps[j].outcome = "threw"
          /\ steps[k] = Step("commits", "ok", "")

----------------------------------------------------------------------------
(* Properties of filterDiff, stated over the text of the diff.             *)

Min(S) == CHOOSE i \in S : \A j \in S : i <= j

IsSubstring(s, t) == \E i \in 1..(Len(t) - Len(s) + 1) : OccursAt(t, i, s)

Blank(s) == \A k \in 1..Len(s) : IsWhitespace(s[k])

Filtered == fPhase = "filtered"

\* where the filter's sections start: at the first character of the diff and
\* at every occurrence of `diff --git `
SectionStarts(d) == {1} \cup {i \in 1..Len(d) : OccursAt(d, i, DiffGit)}

SectionEnd(d, i) ==
    LET later == {j \in SectionStarts(d) : j > i}
    IN  IF later = {} THEN Len(d) ELSE Min(later) - 1

SectionAt(d, i) == SubSeq(d, i, SectionEnd(d, i))

\* the first line of a text
LineOf(s) ==
    LET nl == {i \in 1..Len(s) : s[i] = "\n"}
    IN  IF nl = {} THEN s ELSE SubSeq(s, 1, Min(nl) - 1)

\* the offsets after `diff --git a/` at which ` b/` occurs in a line
MarkerOffsets(line) ==
    {n \in 0..Len(line) : OccursAt(line, Len(DiffGitA) + 1 + n, BMarker)}

\* the line is `diff --git a/<p> b/...` with <p> not empty
HasPath(line) ==
    /\ StartsWith(line, DiffGitA)
    /\ MarkerOffsets(line) # {}
    /\ Min(MarkerOffsets(line)) > 0

PathOf(line) == SubSeq(line, Len(DiffGitA) + 1, Len(DiffGitA) + Min(MarkerOffsets(line)))

\* the line starts with `diff --git a/` and has no ` b/` after it
Malformed(line) == StartsWith(line, DiffGitA) /\ MarkerOffsets(line) = {}

Matches(path, patterns) == \E k \in 1..Len(patterns) : minimatch(path, patterns[k])

\* C5: with an empty pattern list the filter returns the diff itself,
\* whatever it contains, and logs nothing.
C5_EmptyPatternsIdentity ==
    (Filtered /\ fPatterns = <<>>) => fOut.out = fDiff /\ fOut.log = <<>>

C5_Witness ==
    /\ Filtered
    /\ fPatterns = <<>>
    /\ StartsWith(fDiff, <<"\n">> \o DiffGitA)
    /\ ~IsSubstring(BMarker, fDiff)

\* C6: with a non-empty pattern list, a section whose first line is
\* `diff --git a/<p> b/...` with <p> not empty is absent from the result
\* exactly when <p> matches one of the patterns; otherwise it is in the result
\* verbatim.
C6_MatchDecides ==
    (Filtered /\ fPatterns # <<>>) =>
        \A i \in SectionStarts(fDiff) :
            LET s == SectionAt(fDiff, i)
                line == LineOf(s)
            IN  HasPath(line) =>
                    (IsSubstring(s, fOut.out) <=> ~Matches(PathOf(line), fPatterns))

C6_Witness ==
    /\ Filtered
    /\ fOut.removed = 1
    /\ IsSubstring(FileX, fOut.out)
    /\ IsSubstring(FileDY, fDiff)

\* the lines of a diff that start with `diff --git a/`
HeaderLineStarts(d) ==
    {i \in 1..Len(d) : OccursAt(d, i, DiffGitA) /\ (i = 1 \/ d[i - 1] = "\n")}

\* the file sections of a diff: from a header line to the next one or to the
\* end, and the text before the first header line
FileSectionStarts(d) == {1} \cup HeaderLineStarts(d)

FileSectionAt(d, i) ==
    LET later == {j \in FileSectionStarts(d) : j > i}
    IN  SubSeq(d, i, IF later = {} THEN Len(d) ELSE Min(later) - 1)

\* the file sections that start at the positions K, one after the other
FileSectionsOf(d, K) ==
    Flatten([k \in 1..Cardinality(K) |-> FileSectionAt(d, Sorted(K)[k])])

\* a text without the blank characters at its start
TrimStart(s) ==
    LET solid == {i \in 1..Len(s) : ~IsWhitespace(s[i])}
    IN  IF solid = {} THEN <<>> ELSE SubSeq(s, Min(solid), Len(s))

\* C7: with a non-empty pattern list the sections of the filter begin only at
\* lines that start with `diff --git a/`: the result is made of whole file
\* sections, each from its header line to the next header line or the end, so
\* that a removed file is removed up to the next header line and no text of a
\* kept file is removed or separated from it (blank text at the start of the
\* diff left aside).
C7_WholeFileSections ==
    (Filtered /\ fPatterns # <<>>) =>
        \E K \in SUBSET FileSectionStarts(fDiff) :
            TrimStart(fOut.out) = TrimStart(FileSectionsOf(fDiff, K))

\* no file path of a section of the diff matches a pattern
NoPathMatches(d, patterns) ==
    \A i \in SectionStarts(d) :
        LET line == LineOf(SectionAt(d, i))
        IN  HasPath(line) => ~Matches(PathOf(line), patterns)

\* C8 as stated: with a non-empty pattern list that no file path of the diff
\* matches, the filter returns the diff unchanged.
C8_UnchangedWhenNothingMatches ==
    (Filtered /\ fPatterns # <<>> /\ NoPathMatches(fDiff, fPatterns)) => fOut.out = fDiff

\* every `diff --git a/` of the diff is followed on its line by ` b/` after a
\* path that is not empty, and the text before the first `diff --git ` is
\* empty or not blank
WellFormed(d) ==
    \A i \in SectionStarts(d) :
        LET s == SectionAt(d, i)
            line == LineOf(s)
        IN  /\ s = <<>> \/ ~Blank(s)
            /\ StartsWith(line, DiffGitA) => HasPath(line)

\* C8, amended: with a non-empty pattern list that no file path of the diff
\* matches, the filter returns the diff unchanged, provided every
\* `diff --git a/` header of the diff has a path and the diff does not begin
\* with blank text.
C8_UnchangedWhenWellFormed ==
    (Filtered /\ fPatterns # <<>> /\ WellFormed(fDiff) /\ NoPathMatches(fDiff, fPatterns))
        => fOut.out = fDiff

C8_Witness ==
    /\ Filtered
    /\ fPatterns # <<>>
    /\ WellFormed(fDiff)
    /\ NoPathMatches(fDiff, fPatterns)
    /\ StartsWith(fDiff, <<"x", "\n">> \o FileX)
    /\ IsSubstring(FileDY, fDiff)

\* the text before the first `diff --git a/` of a diff
Preamble(d) ==
    LET occ == {i \in 1..Len(d) : OccursAt(d, i, DiffGitA)}
    IN  IF occ = {} THEN d ELSE SubSeq(d, 1, Min(occ) - 1)

\* the text before the first `diff --git ` of a diff
Lead(d) ==
    LET occ == {i \in 1..Len(d) : OccursAt(d, i, DiffGit)}
    IN  IF occ = {} THEN d ELSE SubSeq(d, 1, Min(occ) - 1)

\* C9 as stated: for every diff and pattern list the text before the first
\* `diff --git a/` is at the start of the result, unchanged, blank or not.
C9_PreambleKept ==
    Filtered => StartsWith(fOut.out, Preamble(fDiff))

\* C9, amended: the text before the first `diff --git a/` is at the start of
\* the result, unchanged, except that with a non-empty pattern list blank text
\* before the first `diff --git ` is dropped.
C9_PreambleKeptUnlessBlank ==
    Filtered =>
        LET pre == Preamble(fDiff)
            lead == Lead(fDiff)
        IN  StartsWith(fOut.out,
                       IF fPatterns # <<>> /\ Blank(lead)
                       THEN SubSeq(pre, Len(lead) + 1, Len(pre))
                       ELSE pre)

C9_Witness ==
    /\ Filtered
    /\ fPatterns # <<>>
    /\ Preamble(fDiff) = <<"x", "\n">>
    /\ fOut.removed = 1
    /\ fOut.out = Preamble(fDiff)

\* the sections of a diff whose header has no ` b/`
MalformedStarts(d) == {i \in SectionStarts(d) : Malformed(LineOf(SectionAt(d, i)))}

\* the diff without the section that starts at i
Without(d, i) == SubSeq(d, 1, i - 1) \o SubSeq(d, SectionEnd(d, i) + 1, Len(d))

Count(records, r) == Cardinality({k \in 1..Len(records) : records[k] = r})

\* C10: with a non-empty pattern list a section whose first line starts with
\* `diff --git a/` and has no ` b/` after it is not in the result, one warning
\* naming that first line is logged for it, it is not counted as a removed
\* file, and the rest is filtered as if the section were not there.
C10_MalformedDropped ==
    (Filtered /\ fPatterns # <<>>) =>
        \A i \in MalformedStarts(fDiff) :
            LET line == LineOf(SectionAt(fDiff, i))
                rest == filterDiff(Without(fDiff, i), fPatterns)
                same == {j \in MalformedStarts(fDiff) : LineOf(SectionAt(fDiff, j)) = line}
            IN  /\ fOut.out = rest.out
                /\ fOut.removed = rest.removed
                /\ Count(fOut.log, Rec("warning", "Could not parse diff header: ", line, 0))
                      = Cardinality(same)
                /\ Len(fOut.log) = Len(rest.log) + 1
                /\ fOut.removed =
                      Cardinality({j \in SectionStarts(fDiff) :
                                      LET l == LineOf(SectionAt(fDiff, j))
                                      IN  HasPath(l) /\ Matches(PathOf(l), fPatterns)})

C10_Witness ==
    /\ Filtered
    /\ MalformedStarts(fDiff) # {}
    /\ fOut.removed = 1
    /\ fOut.out = FileX

\* C11: with a non-empty pattern list, a diff that has no line starting with
\* `diff --git a/` and is not blank is returned as it is, with no pattern
\* applied to it (nothing removed, nothing logged); a diff that is empty or
\* blank gives the empty string.
C11_HeaderlessVerbatim ==
    (Filtered /\ fPatterns # <<>>) =>
        /\ (HeaderLineStarts(fDiff) = {} /\ ~Blank(fDiff)) =>
              /\ fOut.out = fDiff
              /\ fOut.log = <<>>
              /\ fOut.removed = 0
        /\ Blank(fDiff) => fOut.out = <<>>

\* the sections of a diff that start at the positions K, one after the other
SectionsOf(d, K) ==
    Flatten([k \in 1..Cardinality(K) |-> SectionAt(d, Sorted(K)[k])])

\* C25: for every diff and pattern list the result is some of the sections
\* of the diff, each at most once, in the order they have in the diff, with
\* nothing between them; so every character of the result comes from the diff
\* and the result is not longer than the diff.
C25_SubsequenceOfSections ==
    Filtered =>
        /\ \E K \in SUBSET SectionStarts(fDiff) : fOut.out = SectionsOf(fDiff, K)
        /\ Len(fOut.out) <= Len(fDiff)
        /\ \A k \in 1..Len(fOut.out) : \E j \in 1..Len(fDiff) : fOut.out[k] = fDiff[j]

C25_Witness ==
    /\ Filtered
    /\ fDiff = <<"x">> \o FileDY \o FileX
    /\ fOut.removed = 1
    /\ fOut.out = <<"x">> \o FileX

\* the sections of a diff whose path matches a pattern, as positions in the diff
MatchedStarts(d, patterns) ==
    {i \in SectionStarts(d) :
        LET line == LineOf(SectionAt(d, i))
        IN  HasPath(line) /\ Matches(PathOf(line), patterns)}

\* the records of a log about one removed file each
IgnoringRecords(records) == SelectSeq(records, LAMBDA rec : rec.text = "Ignoring file: ")

\* the positions of the summary record in a log
SummaryAt(records) ==
    {k \in 1..Len(records) : records[k].text = "Filtered out files from ignored patterns"}

\* C26: in one call of the filter there is one `Ignoring file: <path>` record
\* for each section removed because its path matches, in the order of the
\* sections and naming its path; the summary `Filtered out <n> files from
\* ignored patterns` is there exactly when n > 0, once, as the last record,
\* with n the number of those sections; sections dropped for a malformed
\* header or for being blank are not counted.
C26_RemovalRecords ==
    Filtered =>
        LET matched == Sorted(MatchedStarts(fDiff, fPatterns))
            n == Len(matched)
            ignoring == IgnoringRecords(fOut.log)
        IN  /\ fOut.removed = n
            /\ Len(ignoring) = n
            /\ \A k \in 1..n :
                  ignoring[k] =
                      Rec("info", "Ignoring file: ", PathOf(LineOf(SectionAt(fDiff, matched[k]))), 0)
            /\ IF n > 0
               THEN /\ SummaryAt(fOut.log) = {Len(fOut.log)}
                    /\ fOut.log[Len(fOut.log)].n = n
               ELSE SummaryAt(fOut.log) = {}

C26_Witness ==
    /\ Filtered
    /\ fOut.removed = 2
    /\ MalformedStarts(fDiff) # {}
    /\ Len(fOut.log) = 4
    /\ fOut.log[4] = Rec("info", "Filtered out files from ignored patterns", <<>>, 2)

\* the line is `diff --git a/ b/...`: the marker right after the prefix
EmptyPath(line) ==
    /\ StartsWith(line, DiffGitA)
    /\ MarkerOffsets(line) # {}
    /\ Min(MarkerOffsets(line)) = 0

\* the sections of a diff whose header has an empty path
EmptyPathStarts(d) == {i \in SectionStarts(d) : EmptyPath(LineOf(SectionAt(d, i)))}

\* C27: with a non-empty pattern list a section whose first line has ` b/`
\* right after `diff --git a/` is not tested against the patterns: it is
\* dropped like a malformed header, with one warning naming its first line,
\* whatever the patterns are, and the rest is filtered as if it were not there.
C27_EmptyPathDropped ==
    (Filtered /\ fPatterns # <<>>) =>
        \A i \in EmptyPathStarts(fDiff) :
            LET line == LineOf(SectionAt(fDiff, i))
                rest == filterDiff(Without(fDiff, i), fPatterns)
                same == {j \in SectionStarts(fDiff) : LineOf(SectionAt(fDiff, j)) = line}
            IN  /\ fOut.out = rest.out
                /\ fOut.removed = rest.removed
                /\ Count(fOut.log, Rec("warning", "Could not parse diff header: ", line, 0))
                      = Cardinality(same)
                /\ Len(fOut.log) = Len(rest.log) + 1
                /\ Count(fOut.log, Rec("info", "Ignoring file: ", <<>>, 0)) = 0

C27_Witness ==
    /\ Filtered
    /\ fDiff = FileX \o DiffGitA \o BMarker
    /\ fPatterns = << <<"q">> >>
    /\ fOut.out = FileX
    /\ fOut.log = << Rec("warning", "Could not parse diff header: ", DiffGitA \o BMarker, 0) >>

Refiltered == fPhase = "refiltered"

\* C28: for every diff D and pattern list P, filtering the result of
\* filtering D with P gives that result again, and the second call removes no
\* section and logs nothing: no warning, no removal record, no summary.
C28_Idempotent ==
    Refiltered =>
        /\ fAgain.out = fOut.out
        /\ fAgain.removed = 0
        /\ fAgain.log = <<>>

C28_Witness ==
    /\ Refiltered
    /\ fDiff = FileDY \o DiffGitA \o FileX
    /\ fPatterns = << <<"q">>, <<"d", "/", "*", "*">> >>
    /\ fOut.removed = 1
    /\ \E k \in 1..Len(fOut.log) : fOut.log[k].level = "warning"
    /\ fOut.out = FileX
    /\ fAgain.out = FileX

----------------------------------------------------------------------------
(* Properties of the validators and adapters called alone.                 *)

ReturnedFrom(fn) == uPhase = "returned" /\ uFn = fn

\* the first n characters of a text, or all of it if it is shorter
Take(s, n) == SubSeq(s, 1, IF Len(s) < n THEN Len(s) ELSE n)

\* C12: for the commits c1..cn that listCommits answers, getCommitMessages
\* returns n lines in the same order, separated by single newlines, line i
\* being the first 7 characters of sha_i (all of it if shorter), a space, and
\* the text of message_i before its first newline; an empty message gives a
\* line that ends with the space and an empty list gives the empty string.
C12_CommitLines ==
    (ReturnedFrom("getCommitMessages") /\ uArg.ok) =>
        LET cs == uArg.data
            lines == SplitChar(uOut.value[1], "\n")
        IN  /\ uOut.ok
            /\ cs = <<>> => uOut.value[1] = <<>>
            /\ cs # <<>> =>
                  /\ Len(lines) = Len(cs)
                  /\ \A i \in 1..Len(cs) :
                        /\ lines[i] = Take(cs[i].sha, 7) \o <<" ">> \o LineOf(cs[i].message)
                        /\ cs[i].message = <<>> =>
                              lines[i] = Take(cs[i].sha, 7) \o <<" ">>

C12_Witness ==
    /\ ReturnedFrom("getCommitMessages")
    /\ uArg.ok
    /\ Len(uArg.data) = 2
    /\ Len(uArg.data[1].sha) = 8
    /\ uArg.data[1].message = <<"m", "\n", "d">>
    /\ uArg.data[2].message = <<>>
    /\ uOut.value[1] = <<"a", "b", "c", "d", "e", "f", "1", " ", "m", "\n", "a", "b", " ">>

\* C15: validatePullRequestEvent throws `This action can only be used in pull
\* request events.` exactly when the event name is not `pull_request`, an
\* absent name included; for `pull_request` it returns and does nothing else.
C15_EventGate ==
    ReturnedFrom("validatePullRequestEvent") =>
        /\ uOut.log = <<>>
        /\ IF uArg = Some("pull_request")
           THEN uOut.ok
           ELSE /\ ~uOut.ok
                /\ uOut.error = "This action can only be used in pull request events."

C15_Witness ==
    /\ ReturnedFrom("validatePullRequestEvent")
    /\ uArg = Some("pull_request_target")
    /\ ~uOut.ok

\* the five fields extractPRInfo requires
RequiredFields == {"title", "login", "baseSha", "headSha", "html_url"}

\* C16: extractPRInfo throws `No pull request found in context` when the
\* payload has no pull request; otherwise it throws the one combined message
\* exactly when one of title, user.login, base.sha, head.sha, html_url is
\* absent, null or empty; so every PRInfo it returns has the five fields not
\* empty and equal to the payload's.
C16_PRInfoComplete ==
    ReturnedFrom("extractPRInfo") =>
        IF uArg = None
        THEN ~uOut.ok /\ uOut.error = "No pull request found in context"
        ELSE LET pr == uArg[1] IN
             IF \E f \in RequiredFields : pr[f] \in {None, Some("")}
             THEN /\ ~uOut.ok
                  /\ uOut.error =
                        "Required PR fields are missing (title, author, base SHA, head SHA, or URL)"
             ELSE /\ uOut.ok
                  /\ uOut.value[1] =
                        [number |-> pr.number, title |-> pr.title[1],
                         author |-> pr.login[1], baseSha |-> pr.baseSha[1],
                         headSha |-> pr.headSha[1], url |-> pr.html_url[1]]
                  /\ \A f \in {"title", "author", "baseSha", "headSha", "url"} :
                        uOut.value[1][f] # ""

C16_Witness ==
    /\ ReturnedFrom("extractPRInfo")
    /\ uArg # None
    /\ uArg[1].html_url = Some("")
    /\ \A f \in RequiredFields \ {"html_url"} : uArg[1][f] \notin {None, Some("")}
    /\ ~uOut.ok

\* C19: the ignoredPatterns getConfig returns are the entries of the
\* `ignore-patterns` input between its commas, each trimmed, those empty after
\* trimming left out, in the order of the input; so no pattern is empty or
\* starts or ends with whitespace, an empty or blank input gives the empty
\* list, and the list is logged, once, exactly when it is not empty.
C19_PatternList ==
    (ReturnedFrom("getConfig") /\ uOut.ok) =>
        LET patterns == uOut.value[1].ignoredPatterns
            entries == SplitChar(uArg.ignorePatterns, ",")
            kept == Sorted({k \in 1..Len(entries) : ~Blank(entries[k])})
        IN  /\ Len(patterns) = Len(kept)
            /\ \A i \in 1..Len(patterns) :
                  /\ patterns[i] = Trim(entries[kept[i]])
                  /\ patterns[i] # <<>>
                  /\ ~IsWhitespace(patterns[i][1])
                  /\ ~IsWhitespace(patterns[i][Len(patterns[i])])
            /\ Blank(uArg.ignorePatterns) => patterns = <<>>
            /\ uOut.log =
                  IF patterns = <<>> THEN <<>>
                  ELSE << Rec("info", "Ignoring patterns: ",
                              Join(patterns, <<",", " ">>), 0) >>

C19_Witness ==
    /\ ReturnedFrom("getConfig")
    /\ uArg.ignorePatterns = <<" ", "q", ",", ",", "*">>
    /\ uOut.ok
    /\ uOut.value[1].ignoredPatterns = << <<"q">>, <<"*">> >>
    /\ Len(uOut.log) = 1

\* the content list has a first block, of type text, whose text is present
FirstIsText(content) ==
    /\ content # <<>>
    /\ content[1].type = "text"
    /\ content[1].text # None

\* C20: the generator returns the text of the first content block of the
\* model response, as it is, exactly when the content list is not empty, its
\* first block is of type `text` and that block's text is present; otherwise
\* it fails, the error for an empty list differing from the error for a first
\* block of another type; the blocks after the first change nothing.
C20_FirstBlockText ==
    (ReturnedFrom("generatePRDescription") /\ uArg.ok) =>
        LET content == uArg.data IN
        /\ uOut.ok <=> FirstIsText(content)
        /\ FirstIsText(content) => uOut.value = content[1].text
        /\ content = <<>> =>
              \A b \in AllBlocks :
                  b.type # "text" =>
                      uOut.error # generatePRDescriptionReturns(Answer(<< b >>)).error
        /\ content # <<>> =>
              uOut = generatePRDescriptionReturns(Answer(<< content[1] >>))

C20_Witness ==
    /\ ReturnedFrom("generatePRDescription")
    /\ uArg.ok
    /\ Len(uArg.data) = 2
    /\ uArg.data[1] = Block("text", Some(" other\n"))
    /\ uArg.data[2] = Block("text", Some("desc"))
    /\ uOut.ok
    /\ uOut.value = Some(" other\n")


====
